---- MODULE Spec2Model ----
(***************************************************************************)
(* Model of the tela client core: the streaming consumer (Stream /         *)
(* AsyncStream of tela/_streaming.py), the message store and history       *)
(* manager (tela/_history.py) and the send-message orchestration of the    *)
(* client facade (tela/_client.py, tela/types/chat.py).                    *)
(*                                                                         *)
(* Several specifications share the module.  SpecStream drives one stream  *)
(* object over a line source chosen at construction; the others drive a    *)
(* history manager, alone or inside a client.  Each leaves the variables   *)
(* it does not use untouched.                                              *)
(***************************************************************************)
EXTENDS Integers, Sequences, FiniteSets, TLC

\* ---------------------------------------------------------------- bounds
MaxLines == 3          \* longest line source handed to a stream
MaxCalls == 3          \* consumer calls made on one stream object

\* ------------------------------------------------------------- streaming
VARIABLES
  lines,      \* what response.iter_lines() will produce, in order
  hooks,      \* TRUE when on_chunk / on_content / on_complete are installed
  stream,     \* the Stream object: iterator position, accumulator, chunk
              \* list, and the log of the calls made to each hook
  out,        \* text written to standard output by print_stream
  ret,        \* outcome of the last consumer call
  calls       \* number of consumer calls made so far

streamVars == <<lines, hooks, stream, out, ret, calls>>

\* the history manager and the client that owns it
VARIABLES
  cfg,        \* HistoryManager.enabled / max_conversations / server_sync
  convs,      \* HistoryManager._conversations, in dict (insertion) order
  now,        \* what datetime.utcnow() returns
  uuid,       \* number of uuid4() values drawn so far
  server,     \* what the injected client's chats.list / chats.create answer
  flag,       \* chat.completions._enable_history
  hret,       \* outcome of the last operation on the client or manager
  ops,        \* number of operations performed
  threads     \* the create_conversation calls that threads are running on
              \* the manager, each with its position and its local variables

histVars == <<cfg, convs, now, uuid, server, flag, hret, ops, threads>>
vars == <<lines, hooks, stream, out, ret, calls,
          cfg, convs, now, uuid, server, flag, hret, ops, threads>>

Null == "<None>"       \* JSON null / Python None for a delta content
End == "\n"            \* print_stream's default `end`

\* delta.content values a chunk's choice may carry
Contents == {Null, "", "a", "b"}

\* the choices arrays of the decoded chunks the model feeds
ChoiceLists ==
  {<<>>} \cup {<<[content |-> c]>> : c \in Contents}
         \cup {<<[content |-> "a"], [content |-> "b"]>>}

\* One item of the line source.
\*   blank   : the empty line
\*   other   : a non-empty line without the "data: " prefix
\*   data    : "data: " followed by a payload, which is the sentinel
\*             ("done"), text json.loads rejects ("badjson"), JSON that
\*             is not a chunk object, such as 42 ("nonobj"), or a chunk
\*   raise   : the transport fails while the next line is read
NoChoices == <<>>
SourceItems ==
  {[k |-> "blank", t |-> "", choices |-> NoChoices],
   [k |-> "other", t |-> "", choices |-> NoChoices],
   [k |-> "raise", t |-> "", choices |-> NoChoices],
   [k |-> "data", t |-> "done", choices |-> NoChoices],
   [k |-> "data", t |-> "badjson", choices |-> NoChoices],
   [k |-> "data", t |-> "nonobj", choices |-> NoChoices]}
  \cup {[k |-> "data", t |-> "chunk", choices |-> cs] : cs \in ChoiceLists}

RECURSIVE SeqsUpTo(_, _)
SeqsUpTo(S, n) ==
  IF n = 0 THEN {<<>>}
  ELSE LET shorter == SeqsUpTo(S, n - 1)
       IN  shorter \cup {Append(q, x) : q \in {r \in shorter : Len(r) = n - 1}, x \in S}

NoChunk == [choices |-> NoChoices, none |-> TRUE]

\* Stream.__init__
StreamInit ==
  [iterator |-> 0, accumulated_content |-> "", chunks |-> <<>>,
   on_chunk |-> <<>>, on_content |-> <<>>, on_complete |-> <<>>,
   \* the calls made to on_content and on_chunk, in the order they were made,
   \* each on_content call with the accumulator as it stood at the call
   events |-> <<>>]

\* Stream._process_chunk: ChatCompletionChunk(**data)
process_chunk(data) == [choices |-> data.choices]

\* Stream._extract_content
extract_content_lastChoice(chunk) ==
  IF Len(chunk.choices) > 0
     /\ chunk.choices[Len(chunk.choices)].content \notin {Null, ""}
  THEN chunk.choices[Len(chunk.choices)].content
  ELSE ""

extract_content(chunk) ==
  IF Len(chunk.choices) > 0 /\ chunk.choices[1].content \notin {Null, ""}
  THEN chunk.choices[1].content
  ELSE ""

\* `if self.on_complete and self._accumulated_content: self.on_complete(...)`
FireComplete(h, s) ==
  IF h /\ s.accumulated_content # ""
  THEN [s EXCEPT !.on_complete = Append(@, s.accumulated_content)]
  ELSE s

\* Stream.__next__ (and AsyncStream.__anext__): the while-True loop, run
\* until it returns a chunk or raises.  res is "chunk", "stop"
\* (StopIteration) or "error" (any other exception).
RECURSIVE StreamNext(_, _, _)
StreamNext(ls, h, s) ==
  IF s.iterator >= Len(ls)
  THEN [s |-> FireComplete(h, s), res |-> "stop", chunk |-> NoChunk, err |-> ""]
  ELSE
    LET line == ls[s.iterator + 1]
        s1 == [s EXCEPT !.iterator = @ + 1]
    IN
    IF line.k = "raise"
    THEN \* a generator that raised is finished
         [s |-> [s EXCEPT !.iterator = Len(ls)], res |-> "error",
          chunk |-> NoChunk, err |-> "transport"]
    ELSE IF line.k = "blank" THEN StreamNext(ls, h, s1)
    ELSE IF line.k # "data" THEN StreamNext(ls, h, s1)
    ELSE IF line.t = "done"
    THEN [s |-> FireComplete(h, s1), res |-> "stop", chunk |-> NoChunk, err |-> ""]
    ELSE IF line.t = "badjson" THEN StreamNext(ls, h, s1)
    ELSE IF line.t = "nonobj"
    THEN \* ChatCompletionChunk(**data) raises TypeError, which the
         \* `except json.JSONDecodeError` clause does not catch
         [s |-> s1, res |-> "error", chunk |-> NoChunk, err |-> "TypeError"]
    ELSE
      LET chunk == process_chunk(line)
          content == extract_content(chunk)
          s2 == [s1 EXCEPT !.chunks = Append(@, chunk)]
          s3 == IF content # ""
                THEN [s2 EXCEPT
                        !.accumulated_content = @ \o content,
                        !.on_content = IF h THEN Append(@, content) ELSE @,
                        !.events =
                          IF h
                          THEN Append(@, [call |-> "on_content", arg |-> content,
                                          accumulated |->
                                            s2.accumulated_content \o content])
                          ELSE @]
                ELSE s2
          s4 == IF h
                THEN [s3 EXCEPT
                        !.on_chunk = Append(@, chunk),
                        !.events = Append(@, [call |-> "on_chunk",
                                              arg |-> chunk])]
                ELSE s3
      IN [s |-> s4, res |-> "chunk", chunk |-> chunk, err |-> ""]

\* Stream.collect: `chunks = list(self)` then the accumulated text
RECURSIVE CollectLoop(_, _, _, _)
CollectLoop(ls, h, s, got) ==
  LET r == StreamNext(ls, h, s) IN
  IF r.res = "chunk" THEN CollectLoop(ls, h, r.s, Append(got, r.chunk))
  ELSE IF r.res = "stop"
  THEN [s |-> r.s, res |-> "ok", text |-> r.s.accumulated_content,
        chunks |-> got, err |-> "", printed |-> ""]
  ELSE [s |-> r.s, res |-> "error", text |-> "", chunks |-> <<>>,
        err |-> r.err, printed |-> ""]

\* the text print_stream adds up over the chunks it is handed
RECURSIVE TextOf(_)
TextOf(cs) ==
  IF cs = <<>> THEN "" ELSE extract_content(Head(cs)) \o TextOf(Tail(cs))

\* (a collect that returns the text of its own chunks only, which the code
\* does not do)
collect_ownText(ls, h, s) ==
  LET r == CollectLoop(ls, h, s, <<>>) IN
  IF r.res = "ok" THEN [r EXCEPT !.text = TextOf(r.chunks)] ELSE r

collect(ls, h, s) == CollectLoop(ls, h, s, <<>>)

\* Stream.print_stream
RECURSIVE PrintLoop(_, _, _, _, _)
PrintLoop(ls, h, s, accumulated, printed) ==
  LET r == StreamNext(ls, h, s) IN
  IF r.res = "chunk"
  THEN LET content == extract_content(r.chunk) IN
       IF content # ""
       THEN PrintLoop(ls, h, r.s, accumulated \o content, printed \o content)
       ELSE PrintLoop(ls, h, r.s, accumulated, printed)
  ELSE IF r.res = "stop"
  THEN [s |-> r.s, res |-> "ok", text |-> accumulated, chunks |-> <<>>,
        err |-> "", printed |-> printed \o End]
  ELSE [s |-> r.s, res |-> "error", text |-> "", chunks |-> <<>>,
        err |-> r.err, printed |-> printed]

print_stream(ls, h, s) == PrintLoop(ls, h, s, "", "")

NoRet == [op |-> "none", fresh |-> FALSE, res |-> "", text |-> "",
          chunks |-> <<>>, err |-> ""]

InitStream ==
  /\ lines \in SeqsUpTo(SourceItems, MaxLines)
  /\ hooks \in BOOLEAN
  /\ stream = StreamInit
  /\ out = ""
  /\ ret = NoRet
  /\ calls = 0

Fresh == calls = 0

\* the consumer calls next(stream)
CallNext ==
  /\ calls < MaxCalls
  /\ LET r == StreamNext(lines, hooks, stream) IN
     /\ stream' = r.s
     /\ ret' = [op |-> "next", fresh |-> Fresh, res |-> r.res, text |-> "",
                chunks |-> IF r.res = "chunk" THEN <<r.chunk>> ELSE <<>>,
                err |-> r.err]
  /\ calls' = calls + 1
  /\ UNCHANGED <<lines, hooks, out>>
  /\ UNCHANGED histVars

\* the consumer calls stream.collect()
CallCollect ==
  /\ calls < MaxCalls
  /\ LET r == collect(lines, hooks, stream) IN
     /\ stream' = r.s
     /\ ret' = [op |-> "collect", fresh |-> Fresh, res |-> r.res,
                text |-> r.text, chunks |-> r.chunks, err |-> r.err]
  /\ calls' = calls + 1
  /\ UNCHANGED <<lines, hooks, out>>
  /\ UNCHANGED histVars

\* the consumer calls stream.print_stream()
CallPrint ==
  /\ calls < MaxCalls
  /\ LET r == print_stream(lines, hooks, stream) IN
     /\ stream' = r.s
     /\ out' = out \o r.printed
     /\ ret' = [op |-> "print_stream", fresh |-> Fresh, res |-> r.res,
                text |-> r.text, chunks |-> r.chunks, err |-> r.err]
  /\ calls' = calls + 1
  /\ UNCHANGED <<lines, hooks>>
  /\ UNCHANGED histVars

NextStream == CallNext \/ CallCollect \/ CallPrint

\* ------------------------------------------- message store and manager
MaxCap == 2            \* largest max_conversations a manager is built with
MaxTime == 1           \* last reading of the clock
MaxOps == 2            \* operations performed on one client
MaxMsgs == 3           \* messages a store may hold before add_message stops
MaxUuid == 1           \* uuid4() values drawn

ConvIds == {"c1", "c2"}
Roles == {"system", "user", "assistant", "tool"}

\* uuid.uuid4() rendered as text; every draw is new
Uuid4(n) == "u" \o ToString(n)

\* ---- the dict holding the stores: a sequence without repeated ids
Keys(cs) == [i \in DOMAIN cs |-> cs[i].id]
KeySet(cs) == {cs[i].id : i \in DOMAIN cs}
Has(cs, id) == id \in KeySet(cs)
Get(cs, id) == cs[CHOOSE i \in DOMAIN cs : cs[i].id = id]
\* d[k] = v : a present key keeps its position, a new key goes last
Put(cs, conv) ==
  IF Has(cs, conv.id)
  THEN [i \in DOMAIN cs |-> IF cs[i].id = conv.id THEN conv ELSE cs[i]]
  ELSE Append(cs, conv)
\* del d[k]
Del(cs, id) == SelectSeq(cs, LAMBDA c : c.id # id)

\* ---- ConversationHistory
NewConversation(id, created, updated, meta) ==
  [id |-> id, created_at |-> created, updated_at |-> updated,
   messages |-> <<>>, metadata |-> meta]

\* ConversationHistory.add_message
add_message_prepend(conv, role, content, metadata, t) ==
  [conv EXCEPT
     !.messages = <<[role |-> role, content |-> content,
                     timestamp |-> t, metadata |-> metadata]>> \o @,
     !.updated_at = t]

add_message(conv, role, content, metadata, t) ==
  [conv EXCEPT
     !.messages = Append(@, [role |-> role, content |-> content,
                             timestamp |-> t, metadata |-> metadata]),
     !.updated_at = t]

\* ConversationHistory.clear_messages
clear_messages(conv, t) == [conv EXCEPT !.messages = <<>>, !.updated_at = t]

\* ---- HistoryManager._cleanup_old_conversations
\* (a sort keyed by created_at, which the code does not use)
RECURSIVE InsertSorted_byCreated(_, _)
InsertSorted_byCreated(sorted, c) ==
  IF sorted = <<>> THEN <<c>>
  ELSE IF Head(sorted).created_at <= c.created_at
       THEN <<Head(sorted)>> \o InsertSorted_byCreated(Tail(sorted), c)
       ELSE <<c>> \o sorted

\* sorted(..., key=updated_at) is a stable sort: insertion sort that puts an
\* item after every item whose key is not larger
RECURSIVE InsertSorted(_, _)
InsertSorted(sorted, c) ==
  IF sorted = <<>> THEN <<c>>
  ELSE IF Head(sorted).updated_at <= c.updated_at
       THEN <<Head(sorted)>> \o InsertSorted(Tail(sorted), c)
       ELSE <<c>> \o sorted

RECURSIVE SortByUpdated(_)
SortByUpdated(cs) ==
  IF cs = <<>> THEN <<>>
  ELSE InsertSorted(SortByUpdated(SubSeq(cs, 1, Len(cs) - 1)), cs[Len(cs)])

RECURSIVE DelFirst(_, _, _)
DelFirst(cs, sorted, n) ==
  IF n = 0 THEN cs ELSE DelFirst(Del(cs, Head(sorted).id), Tail(sorted), n - 1)

\* (a cleanup that evicts nothing, which the code does not do)
cleanup_old_conversations_keepAll(cs, max) == cs

cleanup_old_conversations(cs, max) ==
  IF Len(cs) <= max THEN cs
  ELSE DelFirst(cs, SortByUpdated(cs), Len(cs) - max)

\* ---- HistoryManager
\* An optional value is a sequence of length 0 (None) or 1.
\* A conversation_id of "" stands for None (both are falsy).

\* HistoryManager.create_conversation
\* (a creation that registers the store on a disabled manager too, which the
\* code does not do)
create_conversation_always(c, cs, u, t, conversation_id) ==
  LET id == IF conversation_id # "" THEN conversation_id ELSE Uuid4(u + 1)
      u1 == IF conversation_id # "" THEN u ELSE u + 1
      conv == NewConversation(id, t, t, {})
  IN [convs |-> cleanup_old_conversations(Put(cs, conv), c.max_conversations),
      uuid |-> u1, conv |-> conv]

create_conversation(c, cs, u, t, conversation_id) ==
  LET id == IF conversation_id # "" THEN conversation_id ELSE Uuid4(u + 1)
      u1 == IF conversation_id # "" THEN u ELSE u + 1
      conv == NewConversation(id, t, t, {})
  IN IF ~c.enabled
     THEN [convs |-> cs, uuid |-> u1, conv |-> conv]
     ELSE [convs |-> cleanup_old_conversations(Put(cs, conv), c.max_conversations),
           uuid |-> u1, conv |-> conv]

\* HistoryManager.get_conversation
get_conversation(c, cs, conversation_id) ==
  IF ~c.enabled THEN <<>>
  ELSE IF Has(cs, conversation_id) THEN <<Get(cs, conversation_id)>> ELSE <<>>

\* HistoryManager.list_conversations
list_conversations(c, cs) == IF ~c.enabled THEN <<>> ELSE Keys(cs)

\* HistoryManager.delete_conversation
delete_conversation(c, cs, conversation_id) ==
  IF ~c.enabled THEN [convs |-> cs, result |-> FALSE]
  ELSE IF Has(cs, conversation_id)
       THEN [convs |-> Del(cs, conversation_id), result |-> TRUE]
       ELSE [convs |-> cs, result |-> FALSE]

\* Chats.list as sync_with_server sees it.  srv.list is how the remote
\* answers GET /chats: "ok" (a page holding srv.chats, with the extra
\* attribute `total` when srv.total is not empty), "bad_request" (the empty
\* page built by the except clause, total=0) or "error" (any other rejection,
\* which list re-raises).
chats_list(srv) ==
  IF srv.list = "ok"
  THEN [raised |-> FALSE, data |-> srv.chats, total |-> srv.total]
  ELSE IF srv.list = "bad_request"
  THEN [raised |-> FALSE, data |-> <<>>, total |-> <<0>>]
  ELSE [raised |-> TRUE, data |-> <<>>, total |-> <<>>]

\* the for loop of sync_with_server over server_chats.data
RECURSIVE SyncLoop(_, _, _, _, _)
SyncLoop(c, cs, t, data, synced_count) ==
  IF data = <<>> THEN [convs |-> cs, synced_count |-> synced_count]
  ELSE
    LET server_chat == Head(data)
        chat_id == server_chat.chat_id
    IN IF chat_id = "" THEN SyncLoop(c, cs, t, Tail(data), synced_count)
       ELSE IF get_conversation(c, cs, chat_id) # <<>>
       THEN SyncLoop(c, cs, t, Tail(data), synced_count)
       ELSE
         LET created_at == IF server_chat.created_at # <<>>
                           THEN server_chat.created_at[1] ELSE t
             updated_at == IF server_chat.updated_at # <<>>
                           THEN server_chat.updated_at[1] ELSE t
             local_conv == NewConversation(chat_id, created_at, updated_at,
                                           {<<"synced_from_server", TRUE>>})
         IN SyncLoop(c, Put(cs, local_conv), t, Tail(data), synced_count + 1)

NotSynced(cs, reason) ==
  [convs |-> cs,
   result |-> [synced |-> FALSE, reason |-> reason, synced_count |-> -1,
               total_server_chats |-> -1, errors |-> <<>>]]

\* HistoryManager.sync_with_server
sync_with_server(c, cs, t, srv) ==
  IF ~c.server_sync
  THEN NotSynced(cs, "Server sync not enabled or client not available")
  ELSE
    LET server_chats == chats_list(srv) IN
    IF server_chats.raised THEN NotSynced(cs, "Sync failed")
    ELSE IF server_chats.data = <<>> /\ server_chats.total = <<>>
    THEN \* reading the attribute `total` raises AttributeError, which the
         \* outer except turns into a failed sync
         NotSynced(cs, "Sync failed")
    ELSE IF server_chats.data = <<>> /\ server_chats.total = <<0>>
    THEN [convs |-> cs,
          result |-> [synced |-> TRUE, reason |-> "", synced_count |-> 0,
                      total_server_chats |-> 0,
                      errors |-> <<"Server chat endpoints may not be available">>]]
    ELSE
      LET r == SyncLoop(c, cs, t, server_chats.data, 0) IN
      [convs |-> r.convs,
       result |-> [synced |-> TRUE, reason |-> "", synced_count |-> r.synced_count,
                   total_server_chats |-> Len(server_chats.data),
                   errors |-> <<>>]]

\* ids Chats.create makes up when the remote answers malformed-request
\* (an id that is not fresh: the same one at every call)
LocalId_reused(n) == "local_" \o Uuid4(1)

LocalId(n) == "local_" \o Uuid4(n)
startswith_local(id) == \E n \in 1..(MaxUuid + 2) : id = LocalId(n)

\* Chats.create: `how` is the remote's answer to POST /chats: "ok" (a
\* response carrying chat_id = sid), "no_id" (a response without chat_id),
\* "bad_request" (the local_ fallback) or "error" (re-raised)
chats_create(how, sid, u) ==
  IF how = "ok" THEN [raised |-> FALSE, chat_id |-> sid, uuid |-> u]
  ELSE IF how = "no_id" THEN [raised |-> FALSE, chat_id |-> "", uuid |-> u]
  ELSE IF how = "bad_request"
  THEN [raised |-> FALSE, chat_id |-> LocalId(u + 1), uuid |-> u + 1]
  ELSE [raised |-> TRUE, chat_id |-> "", uuid |-> u]

\* HistoryManager.create_server_chat; a result of "" stands for None
create_server_chat(c, cs, u, t, conversation_id, how, sid) ==
  IF ~c.server_sync THEN [convs |-> cs, uuid |-> u, result |-> ""]
  ELSE
    LET server_response == chats_create(how, sid, u)
        chat_id == server_response.chat_id
    IN IF server_response.raised \/ chat_id = ""
       THEN [convs |-> cs, uuid |-> server_response.uuid, result |-> ""]
       ELSE
         LET is_local_fallback == startswith_local(chat_id)
             local_conv == NewConversation(chat_id, t, t,
                             {<<"synced_with_server", ~is_local_fallback>>,
                              <<"local_fallback", is_local_fallback>>})
         IN [convs |-> IF (conversation_id # "" \/ c.enabled) /\ c.enabled
                       THEN Put(cs, local_conv) ELSE cs,
             uuid |-> server_response.uuid, result |-> chat_id]


\* ---- client facade (Tela / AsyncTela) and chat.completions
ContextRoles == {"user", "assistant", "system"}

\* `if max_messages and len(conversation_messages) > max_messages:
\*      conversation_messages = conversation_messages[-max_messages:]`
\* max_messages is <<>> (None) or <<k>> with k >= 0
TrimWindow(conversation_messages, max_messages) ==
  IF max_messages # <<>> /\ max_messages[1] # 0
     /\ Len(conversation_messages) > max_messages[1]
  THEN SubSeq(conversation_messages,
              Len(conversation_messages) - max_messages[1] + 1,
              Len(conversation_messages))
  ELSE conversation_messages

\* the formatting loop of get_conversation_context
RECURSIVE FormatMessages(_)
FormatMessages(msgs) ==
  IF msgs = <<>> THEN <<>>
  ELSE LET msg == Head(msgs)
           rest == FormatMessages(Tail(msgs))
       IN IF msg.role \in ContextRoles
          THEN <<[role |-> msg.role, content |-> msg.content]>> \o rest
          ELSE rest

\* Tela.get_conversation_context(conversation_id, messages, max_messages)
get_conversation_context(c, cs, conversation_id, messages, max_messages) ==
  IF conversation_id # "" /\ get_conversation(c, cs, conversation_id) = <<>>
  THEN [err |-> "ValueError", ctx |-> <<>>]
  ELSE IF conversation_id = "" /\ messages = <<>>
  THEN [err |-> "", ctx |-> <<>>]
  ELSE
    LET conversation_messages ==
          IF conversation_id # ""
          THEN get_conversation(c, cs, conversation_id)[1].messages
          ELSE messages
    IN [err |-> "",
        ctx |-> FormatMessages(TrimWindow(conversation_messages, max_messages))]

\* What POST /chat/completions leads to in Completions.create:
\*   "ok"        a completion whose first choice carries text
\*   "null"      a completion whose first choice has content null
\*   "nochoices" a completion with an empty choices list
\*   "raise"     the request (or the validation of its response) raises
Outcomes == {"ok", "null", "nochoices", "raise"}

Completion(outcome) ==
  [choices |->
     IF outcome = "ok"
     THEN <<[message |-> [role |-> "assistant", content |-> "r"]]>>
     ELSE IF outcome = "null"
     THEN <<[message |-> [role |-> "assistant", content |-> Null]]>>
     ELSE <<>>]

\* conversation.add_message on the store tracked under id; a store that is
\* not tracked (manager disabled, or evicted at creation) is written to
\* without any effect on the manager
AddTracked(c, cs, id, role, content, metadata, t) ==
  IF c.enabled /\ Has(cs, id)
  THEN Put(cs, add_message(Get(cs, id), role, content, metadata, t))
  ELSE cs

\* `for msg in messages: if msg.get("role") in ("user", "system"): ...`
RECURSIVE AddRequestMessages(_, _, _, _, _)
AddRequestMessages(c, cs, id, messages, t) ==
  IF messages = <<>> THEN cs
  ELSE LET msg == Head(messages)
           cs1 == IF msg.role \in {"user", "system"}
                  THEN AddTracked(c, cs, id, msg.role, msg.content, "model", t)
                  ELSE cs
       IN AddRequestMessages(c, cs1, id, Tail(messages), t)

\* Completions.create (stream=False) with the history write-back
completions_create(c, cs, u, t, enable_history, messages, conversation_id, outcome) ==
  LET history == enable_history /\ conversation_id # ""
      cs1 == IF history /\ get_conversation(c, cs, conversation_id) = <<>>
             THEN create_conversation(c, cs, u, t, conversation_id).convs
             ELSE cs
  IN IF outcome = "raise"
     THEN [convs |-> IF history
                     THEN AddTracked(c, cs1, conversation_id, "system",
                                     "Error: e", "error", t)
                     ELSE cs1,
           raised |-> TRUE, completion |-> Completion(outcome)]
     ELSE
       LET completion == Completion(outcome)
           cs2 == IF history
                  THEN AddRequestMessages(c, cs1, conversation_id, messages, t)
                  ELSE cs1
           cs3 == IF history /\ Len(completion.choices) > 0
                  THEN AddTracked(c, cs2, conversation_id, "assistant",
                         IF completion.choices[1].message.content = Null
                         THEN "" ELSE completion.choices[1].message.content,
                         "model", t)
                  ELSE cs2
       IN [convs |-> cs3, raised |-> FALSE, completion |-> completion]

\* the flag Tela.send_message hands to chat.completions while it waits
SuppressedFlag_keep(orig_enable_history) == orig_enable_history

SuppressedFlag(orig_enable_history) == FALSE

\* Tela.send_message / AsyncTela.send_message.
\* raised is "" when the call returns; returned is the text it returns.
send_message(c, cs, u, t, fl, message, conversation_id, max_history, outcome) ==
  LET existing_conversations == list_conversations(c, cs)
      r1 == IF conversation_id # ""
            THEN IF get_conversation(c, cs, conversation_id) # <<>>
                 THEN [convs |-> cs, uuid |-> u, cid |-> conversation_id]
                 ELSE LET cr == create_conversation(c, cs, u, t, conversation_id)
                      IN [convs |-> cr.convs, uuid |-> cr.uuid, cid |-> conversation_id]
            ELSE IF existing_conversations # <<>>
                 THEN [convs |-> cs, uuid |-> u,
                       cid |-> existing_conversations[Len(existing_conversations)]]
                 ELSE LET cr == create_conversation(c, cs, u, t, "")
                      IN [convs |-> cr.convs, uuid |-> cr.uuid, cid |-> cr.conv.id]
      context == get_conversation_context(c, r1.convs, r1.cid, <<>>, max_history)
  IN IF context.err # ""
     THEN [convs |-> r1.convs, uuid |-> r1.uuid, flag |-> fl, cid |-> r1.cid,
           called |-> FALSE, raised |-> context.err, returned |-> ""]
     ELSE
       LET context_messages ==
             Append(context.ctx, [role |-> "user", content |-> message])
           orig_enable_history == fl
           cr == completions_create(c, r1.convs, r1.uuid, t,
                                    SuppressedFlag(orig_enable_history),
                                    context_messages, r1.cid, outcome)
       IN \* `finally` has put orig_enable_history back in every case below
          IF cr.raised
          THEN [convs |-> cr.convs, uuid |-> r1.uuid, flag |-> orig_enable_history,
                cid |-> r1.cid, called |-> TRUE, raised |-> "APIError",
                returned |-> ""]
          ELSE IF Len(cr.completion.choices) = 0
          THEN [convs |-> cr.convs, uuid |-> r1.uuid, flag |-> orig_enable_history,
                cid |-> r1.cid, called |-> TRUE, raised |-> "IndexError",
                returned |-> ""]
          ELSE
            LET assistant_message == cr.completion.choices[1].message.content
                cs1 == AddTracked(c, cr.convs, r1.cid, "user", message, "", t)
                cs2 == AddTracked(c, cs1, r1.cid, "assistant",
                                  assistant_message, "", t)
            IN [convs |-> cs2, uuid |-> r1.uuid, flag |-> orig_enable_history,
                cid |-> r1.cid, called |-> TRUE, raised |-> "",
                returned |-> assistant_message]


\* ------------------------------------------------ initial states, actions
MaxServer == 2         \* chats in the remote listing
MaxCtxMsgs == 4        \* messages in the store get_conversation_context reads

NoHret == [op |-> "none"]
\* no thread is running a call on the manager
NoThreads == <<>>
NoServer == [list |-> "error", chats |-> <<>>, total |-> <<>>]

StreamQuiet ==
  /\ lines = <<>> /\ hooks = FALSE /\ stream = StreamInit
  /\ out = "" /\ ret = NoRet /\ calls = 0

HistQuiet ==
  /\ cfg = [enabled |-> TRUE, max_conversations |-> 1, server_sync |-> FALSE]
  /\ convs = <<>> /\ now = 0 /\ uuid = 0 /\ server = NoServer
  /\ flag = TRUE /\ hret = NoHret /\ ops = 0
  /\ threads = NoThreads

\* HistoryManager._load_from_file: the stores of the persisted document are
\* registered in document order; nothing is evicted
PersistedIds == <<"c1", "c2", "c3">>
PersistedFiles ==
  {[i \in 1..n |-> NewConversation(PersistedIds[i], 0, 0, {})] : n \in 0..3}

load_from_file(file) == file

\* timestamps a server chat record may carry: none, or created/updated
ServerStamps ==
  {<<<<>>, <<>>>>, <<<<0>>, <<0>>>>, <<<<MaxTime>>, <<0>>>>, <<<<>>, <<0>>>>,
   <<<<0>>, <<MaxTime>>>>}
ServerIds == {"c1", "s1"}
ServerChats ==
  {[chat_id |-> id, created_at |-> ts[1], updated_at |-> ts[2]] :
     id \in ServerIds, ts \in ServerStamps}
Listings ==
  {l \in SeqsUpTo(ServerChats, MaxServer) :
     \A i, j \in DOMAIN l : i # j => l[i].chat_id # l[j].chat_id}
Servers ==
  {NoServer, [list |-> "bad_request", chats |-> <<>>, total |-> <<>>]}
  \cup {[list |-> "ok", chats |-> l, total |-> tot] :
          l \in Listings, tot \in {<<>>, <<0>>}}

\* HistoryManager.__init__ as Tela.__init__ or a direct caller runs it
InitManager(syncs) ==
  /\ cfg \in [enabled : BOOLEAN, max_conversations : 1..MaxCap, server_sync : syncs]
  /\ convs \in IF cfg.enabled
               THEN {load_from_file(f) : f \in PersistedFiles} ELSE {<<>>}
  /\ server \in IF cfg.server_sync THEN Servers ELSE {NoServer}
  /\ flag = cfg.enabled
  /\ now = 0 /\ uuid = 0 /\ hret = NoHret /\ ops = 0
  /\ threads = NoThreads

CanStep == ops < MaxOps

Step(result) ==
  /\ ops' = ops + 1
  /\ hret' = result

\* the clock moves on between two operations
Tick ==
  /\ now < MaxTime
  /\ now' = now + 1
  /\ UNCHANGED <<cfg, convs, uuid, server, flag, hret, ops>>
  /\ UNCHANGED <<streamVars, threads>>

CreateConversation ==
  /\ CanStep
  /\ \E id \in ConvIds \cup {""} :
    /\ id = "" => uuid < MaxUuid
    /\ \E r \in {create_conversation(cfg, convs, uuid, now, id)} :
       /\ convs' = r.convs
       /\ uuid' = r.uuid
       /\ Step([op |-> "create_conversation", id |-> r.conv.id,
                \* the stores the call stopped tracking
                evicted |-> {[id |-> convs[i].id,
                              updated_at |-> convs[i].updated_at] :
                               i \in {j \in DOMAIN convs :
                                        ~Has(r.convs, convs[j].id)}}])
    /\ UNCHANGED <<cfg, now, server, flag>>
  /\ UNCHANGED <<streamVars, threads>>

DeleteConversation ==
  /\ CanStep
  /\ \E id \in ConvIds :
    /\ LET r == delete_conversation(cfg, convs, id) IN
       /\ convs' = r.convs
       /\ Step([op |-> "delete_conversation", id |-> id, result |-> r.result])
    /\ UNCHANGED <<cfg, now, uuid, server, flag>>
  /\ UNCHANGED <<streamVars, threads>>

SyncWithServer ==
  /\ CanStep
  /\ \E r \in {sync_with_server(cfg, convs, now, server)} :
     /\ convs' = r.convs
     /\ Step([op |-> "sync_with_server", result |-> r.result,
              local_before |-> KeySet(convs), count |-> Len(r.convs),
              \* the sync call made just before this one, if any
              first |-> IF hret.op = "sync_with_server"
                        THEN <<[result |-> hret.result, count |-> hret.count,
                                local_before |-> hret.local_before]>>
                        ELSE <<>>])
  /\ UNCHANGED <<cfg, now, uuid, server, flag>>
  /\ UNCHANGED <<streamVars, threads>>

CreateServerChat ==
  /\ CanStep
  /\ \E how \in {"ok", "no_id", "bad_request", "error"}, sid \in ServerIds,
     id \in {"", "c1"} :
    /\ how = "bad_request" => uuid < MaxUuid
    /\ how # "ok" => sid = "s1"
    /\ \E r \in {create_server_chat(cfg, convs, uuid, now, id, how, sid)} :
       /\ convs' = r.convs
       /\ uuid' = r.uuid
       /\ Step([op |-> "create_server_chat", result |-> r.result])
    /\ UNCHANGED <<cfg, now, server, flag>>
  /\ UNCHANGED <<streamVars, threads>>

\* conv.add_message(role, content) on a tracked store
AddMessage ==
  /\ CanStep
  /\ \E i \in DOMAIN convs, role \in Roles, content \in {"y"} :
    /\ Len(convs[i].messages) < MaxMsgs
    /\ convs' = [convs EXCEPT ![i] = add_message(@, role, content, "", now)]
    /\ Step([op |-> "add_message", id |-> convs[i].id,
             role |-> role, content |-> content])
    /\ UNCHANGED <<cfg, now, uuid, server, flag>>
  /\ UNCHANGED <<streamVars, threads>>

MessagesOf(cs, id) == IF Has(cs, id) THEN Get(cs, id).messages ELSE <<>>

SendMessage ==
  /\ CanStep
  /\ \E message \in {"x"}, id \in ConvIds \cup {""},
     max_history \in {<<>>, <<1>>}, outcome \in Outcomes :
    /\ id = "" /\ convs = <<>> => uuid < MaxUuid
    /\ \A i \in DOMAIN convs : Len(convs[i].messages) + 2 <= MaxMsgs
    /\ \E r \in {send_message(cfg, convs, uuid, now, flag, message, id,
                             max_history, outcome)} :
          /\ convs' = r.convs
          /\ uuid' = r.uuid
          /\ flag' = r.flag
          /\ Step([op |-> "send_message", message |-> message, cid |-> r.cid,
                   outcome |-> outcome, called |-> r.called,
                   raised |-> r.raised, returned |-> r.returned,
                   before |-> MessagesOf(convs, r.cid),
                   after |-> MessagesOf(r.convs, r.cid),
                   \* whether the target was tracked when the call began,
                   \* and the stores the call stopped tracking
                   tracked |-> Has(convs, r.cid),
                   evicted |-> {[id |-> convs[i].id,
                                 updated_at |-> convs[i].updated_at] :
                                  i \in {j \in DOMAIN convs :
                                           ~Has(convs', convs[j].id)}}])
    /\ UNCHANGED <<cfg, now, server>>
  /\ UNCHANGED <<streamVars, threads>>

GetContext ==
  /\ \E id \in KeySet(convs), n \in 0..(MaxCtxMsgs + 1) :
    \E max_messages \in {<<>>, <<n>>} :
      /\ LET r == get_conversation_context(cfg, convs, id, <<>>, max_messages) IN
         hret' = [op |-> "get_conversation_context", id |-> id,
                  max_messages |-> max_messages, err |-> r.err, ctx |-> r.ctx]
      /\ UNCHANGED <<cfg, convs, now, uuid, server, flag, ops>>
  /\ UNCHANGED <<streamVars, threads>>

\* ---- the history manager on its own
InitMgr == StreamQuiet /\ InitManager(BOOLEAN)
NextMgr ==
  CreateConversation \/ DeleteConversation \/ SyncWithServer
    \/ CreateServerChat \/ Tick
SpecManager == InitMgr /\ [][NextMgr]_vars

\* ---- a Tela client: its manager is built without server sync
InitClient == StreamQuiet /\ InitManager({FALSE})
NextClient ==
  CreateConversation \/ AddMessage \/ SendMessage \/ Tick
SpecClient == InitClient /\ [][NextClient]_vars

\* ---- a manager that only creates conversations and adds messages
MaxRun == 4            \* operations in a run of creations and add_message calls

InitEvict ==
  /\ StreamQuiet
  /\ cfg \in [enabled : {TRUE}, max_conversations : 1..MaxCap,
              server_sync : {FALSE}]
  /\ convs = <<>> /\ server = NoServer /\ flag = TRUE
  /\ now = 0 /\ uuid = 0 /\ hret = NoHret
  \* CanStep lets ops reach MaxOps: these runs take MaxRun operations
  /\ ops = MaxOps - MaxRun
  /\ threads = NoThreads
NextEvict == CreateConversation \/ AddMessage \/ Tick
SpecEvict == InitEvict /\ [][NextEvict]_vars

\* ---- a client whose conversations are created, deleted and synced before
\* ---- a send_message without conversation_id
SendToLatest ==
  /\ CanStep
  /\ \E outcome \in Outcomes :
    /\ convs = <<>> => uuid < MaxUuid
    /\ \A i \in DOMAIN convs : Len(convs[i].messages) + 2 <= MaxMsgs
    /\ LET r == send_message(cfg, convs, uuid, now, flag, "x", "", <<>>, outcome)
       IN /\ convs' = r.convs
          /\ uuid' = r.uuid
          /\ flag' = r.flag
          /\ Step([op |-> "send_message", conversation_id |-> "",
                   message |-> "x", cid |-> r.cid, outcome |-> outcome,
                   called |-> r.called, raised |-> r.raised,
                   returned |-> r.returned, tracked |-> convs])
    /\ UNCHANGED <<cfg, now, server>>
  /\ UNCHANGED <<streamVars, threads>>

InitReuse ==
  /\ StreamQuiet
  /\ cfg \in [enabled : {TRUE}, max_conversations : 1..MaxCap,
              server_sync : {FALSE}]
  /\ convs = <<>> /\ server = NoServer /\ flag = TRUE
  /\ now = 0 /\ uuid = 0 /\ hret = NoHret
  /\ ops = MaxOps - MaxRun
  /\ threads = NoThreads
NextReuse ==
  CreateConversation \/ DeleteConversation \/ SyncWithServer
    \/ SendToLatest \/ Tick
SpecReuse == InitReuse /\ [][NextReuse]_vars

\* ---- threads calling create_conversation on one manager.  The manager
\* ---- takes no lock; a thread can be preempted between any two accesses
\* ---- of the dict.
MaxThreads == 2        \* threads sharing the manager
MaxThreadCalls == 2    \* create_conversation calls each thread makes

Threads == 1..MaxThreads
ThreadConvIds == {"c1", "c2", "c3"}

\* a thread between two calls: sorted_convs, to_remove and i are the locals
\* of _cleanup_old_conversations, done counts the calls it has finished,
\* raised is the exception its last call ended with ("" for none), alone
\* tells whether its call has had the manager to itself so far
IdleThread ==
  [pc |-> "idle", sorted_convs |-> <<>>, to_remove |-> 0, i |-> 0,
   done |-> 0, raised |-> "", alone |-> FALSE]

\* the call of thread t ends, by return or by the exception e
ThreadEnds(t, e) ==
  [threads EXCEPT
     !.th[t] = [IdleThread EXCEPT !.done = threads.th[t].done + 1,
                                  !.raised = e],
     !.settled = threads.th[t].alone /\ e = ""]

\* create_conversation up to `self._conversations[conv.id] = conv`
ThreadInsert ==
  /\ \E t \in Threads, id \in ThreadConvIds :
    /\ threads.th[t].pc = "idle"
    /\ threads.th[t].done < MaxThreadCalls
    /\ convs' = Put(convs, NewConversation(id, now, now, {}))
    /\ threads' =
         [th |-> [u \in Threads |->
                    IF u = t
                    THEN [threads.th[t] EXCEPT
                            !.pc = "check", !.raised = "",
                            !.alone = \A v \in Threads \ {t} :
                                        threads.th[v].pc = "idle"]
                    ELSE [threads.th[u] EXCEPT !.alone = FALSE]],
          settled |-> FALSE]
  /\ UNCHANGED <<cfg, now, uuid, server, flag, hret, ops>>
  /\ UNCHANGED streamVars

\* `if len(self._conversations) <= self.max_conversations: return`
ThreadCheck ==
  /\ \E t \in Threads :
    /\ threads.th[t].pc = "check"
    /\ threads' = IF Len(convs) <= cfg.max_conversations
                  THEN ThreadEnds(t, "")
                  ELSE [threads EXCEPT !.th[t].pc = "sort"]
  /\ UNCHANGED <<cfg, convs, now, uuid, server, flag, hret, ops>>
  /\ UNCHANGED streamVars

\* `sorted_convs = sorted(self._conversations.items(), key=...)`
ThreadSort ==
  /\ \E t \in Threads :
    /\ threads.th[t].pc = "sort"
    /\ threads' = [threads EXCEPT !.th[t].pc = "count",
                                  !.th[t].sorted_convs = SortByUpdated(convs)]
  /\ UNCHANGED <<cfg, convs, now, uuid, server, flag, hret, ops>>
  /\ UNCHANGED streamVars

\* `to_remove = len(self._conversations) - self.max_conversations`
ThreadCount ==
  /\ \E t \in Threads :
    /\ threads.th[t].pc = "count"
    /\ threads' = [threads EXCEPT
                     !.th[t].pc = "delete", !.th[t].i = 0,
                     !.th[t].to_remove = Len(convs) - cfg.max_conversations]
  /\ UNCHANGED <<cfg, convs, now, uuid, server, flag, hret, ops>>
  /\ UNCHANGED streamVars

\* one round of `for i in range(to_remove): conv_id, _ = sorted_convs[i];
\* del self._conversations[conv_id]`, or the end of the loop
ThreadDelete ==
  /\ \E t \in Threads :
    LET me == threads.th[t] IN
    /\ me.pc = "delete"
    /\ IF me.i >= me.to_remove
       THEN threads' = ThreadEnds(t, "") /\ convs' = convs
       ELSE IF me.i + 1 > Len(me.sorted_convs)
       THEN threads' = ThreadEnds(t, "IndexError") /\ convs' = convs
       ELSE IF ~Has(convs, me.sorted_convs[me.i + 1].id)
       THEN threads' = ThreadEnds(t, "KeyError") /\ convs' = convs
       ELSE /\ convs' = Del(convs, me.sorted_convs[me.i + 1].id)
            /\ threads' = [threads EXCEPT !.th[t].i = me.i + 1]
  /\ UNCHANGED <<cfg, now, uuid, server, flag, hret, ops>>
  /\ UNCHANGED streamVars

InitThreads ==
  /\ StreamQuiet
  /\ cfg \in [enabled : {TRUE}, max_conversations : 1..MaxCap,
              server_sync : {FALSE}]
  /\ convs = <<>> /\ server = NoServer /\ flag = TRUE
  /\ now = 0 /\ uuid = 0 /\ hret = NoHret /\ ops = 0
  /\ threads = [th |-> [t \in Threads |-> IdleThread], settled |-> FALSE]
NextThreads ==
  ThreadInsert \/ ThreadCheck \/ ThreadSort \/ ThreadCount \/ ThreadDelete
    \/ Tick
SpecThreads == InitThreads /\ [][NextThreads]_vars

\* ---- the chat-management and completion calls against a remote that
\* ---- answers each request with an HTTP status
Statuses == {200, 400, 401, 403, 404, 409, 422, 429, 500}

\* BaseClient._handle_error_response: the exception raised for a status
handle_error_response(status) ==
  IF status = 400 THEN "BadRequestError"
  ELSE IF status = 401 THEN "AuthenticationError"
  ELSE IF status = 403 THEN "PermissionDeniedError"
  ELSE IF status = 404 THEN "NotFoundError"
  ELSE IF status = 409 THEN "ConflictError"
  ELSE IF status = 422 THEN "UnprocessableEntityError"
  ELSE IF status = 429 THEN "RateLimitError"
  ELSE IF status >= 500 THEN "InternalServerError"
  ELSE "APIStatusError"

\* BaseClient._process_response: "" when the body is handed back
process_response(status) ==
  IF status >= 400 THEN handle_error_response(status) ELSE ""

Returned(value) == [raised |-> "", value |-> value]
Raised(kind) == [raised |-> kind, value |-> "none"]

\* Chats.list / AsyncChats.list
ChatsList(status) ==
  LET e == process_response(status) IN
  IF e = "" THEN Returned("server page")
  ELSE IF e = "BadRequestError" THEN Returned("empty page")
  ELSE Raised(e)

\* Chats.get / AsyncChats.get
ChatsGet(status) ==
  LET e == process_response(status) IN
  IF e = "" THEN Returned("server chat")
  ELSE IF e \in {"BadRequestError", "NotFoundError"}
  THEN Returned("local chat")
  ELSE Raised(e)

\* Chats.update / AsyncChats.update
ChatsUpdate(status) ==
  LET e == process_response(status) IN
  IF e = "" THEN Returned("server chat")
  ELSE IF e \in {"BadRequestError", "NotFoundError"}
  THEN Returned("local chat")
  ELSE Raised(e)

\* Chats.delete / AsyncChats.delete: the last clause is `except Exception`
ChatsDelete(status) ==
  LET e == process_response(status) IN
  IF e = "" THEN Returned("True")
  ELSE IF e \in {"BadRequestError", "NotFoundError"} THEN Returned("False")
  ELSE Returned("False")

ChatCall(op, chat_id, status, result) ==
  /\ Step([op |-> op, chat_id |-> chat_id, status |-> status,
           result |-> result])
  /\ UNCHANGED <<cfg, convs, now, uuid, server, flag>>
  /\ UNCHANGED <<streamVars, threads>>

CallChatsList ==
  /\ CanStep
  /\ \E status \in Statuses :
       ChatCall("chats.list", "", status, ChatsList(status))

CallChatsGet ==
  /\ CanStep
  /\ \E status \in Statuses, chat_id \in ServerIds :
       ChatCall("chats.get", chat_id, status, ChatsGet(status))

CallChatsUpdate ==
  /\ CanStep
  /\ \E status \in Statuses, chat_id \in ServerIds :
       ChatCall("chats.update", chat_id, status, ChatsUpdate(status))

CallChatsDelete ==
  /\ CanStep
  /\ \E status \in Statuses, chat_id \in ServerIds :
       ChatCall("chats.delete", chat_id, status, ChatsDelete(status))

\* SyncAPIClient.post: a streaming request is wrapped in a Stream before the
\* status of the response is looked at
post(status, streaming) ==
  IF streaming THEN Returned("stream")
  ELSE IF process_response(status) = "" THEN Returned("body")
  ELSE Raised(process_response(status))

\* Completions.create seen from the status of POST /chat/completions: the
\* except clause logs to the conversation and re-raises
CompletionsCreateOn(status, streaming) ==
  LET response == post(status, streaming) IN
  IF response.raised # "" THEN Raised(response.raised)
  ELSE IF streaming THEN Returned("stream")
  ELSE Returned("completion")

\* Tela.send_message seen from the status of POST /chat/completions;
\* streaming is the keyword argument stream it passes on in **kwargs
SendMessageOn(status, streaming) ==
  LET response == CompletionsCreateOn(status, streaming) IN
  IF response.raised # "" THEN Raised(response.raised)
  ELSE IF response.value = "stream"
  THEN \* response.choices on a Stream object
       Raised("AttributeError")
  ELSE Returned("assistant text")

CallCompletionsCreate ==
  /\ CanStep
  /\ \E status \in Statuses, streaming \in BOOLEAN :
       /\ Step([op |-> "chat.completions.create", stream |-> streaming,
                status |-> status,
                result |-> CompletionsCreateOn(status, streaming)])
       /\ UNCHANGED <<cfg, convs, now, uuid, server, flag>>
  /\ UNCHANGED <<streamVars, threads>>

CallSendMessage ==
  /\ CanStep
  /\ \E status \in Statuses, streaming \in BOOLEAN :
       /\ Step([op |-> "send_message", stream |-> streaming, status |-> status,
                result |-> SendMessageOn(status, streaming)])
       /\ UNCHANGED <<cfg, convs, now, uuid, server, flag>>
  /\ UNCHANGED <<streamVars, threads>>

InitChats ==
  /\ StreamQuiet /\ HistQuiet
NextChats ==
  CallChatsList \/ CallChatsGet \/ CallChatsUpdate \/ CallChatsDelete
    \/ CallCompletionsCreate \/ CallSendMessage
SpecChats == InitChats /\ [][NextChats]_vars

\* ---- a manager with server sync whose remote answers every POST /chats
\* ---- with malformed-request
MaxFallbacks == 3      \* calls made against that remote

\* the ids handed out by the calls made so far
Issued ==
  IF hret.op \in {"chats.create", "create_server_chat"}
  THEN hret.issued \cup {hret.result} ELSE {}

\* client.chats.create(...)
FallbackChatsCreate ==
  /\ ops < MaxFallbacks
  /\ LET r == chats_create("bad_request", "s1", uuid) IN
     /\ uuid' = r.uuid
     /\ Step([op |-> "chats.create", result |-> r.chat_id,
              raised |-> r.raised, issued |-> Issued])
  /\ UNCHANGED <<cfg, convs, now, server, flag>>
  /\ UNCHANGED <<streamVars, threads>>

\* history.create_server_chat(conversation_id)
FallbackCreateServerChat ==
  /\ ops < MaxFallbacks
  /\ \E id \in {"", "c1"} :
    LET r == create_server_chat(cfg, convs, uuid, now, id, "bad_request", "s1")
    IN /\ convs' = r.convs
       /\ uuid' = r.uuid
       /\ Step([op |-> "create_server_chat", result |-> r.result,
                raised |-> FALSE, issued |-> Issued])
  /\ UNCHANGED <<cfg, now, server, flag>>
  /\ UNCHANGED <<streamVars, threads>>

InitFallback ==
  /\ StreamQuiet
  /\ cfg \in [enabled : BOOLEAN, max_conversations : 1..MaxCap,
              server_sync : {TRUE}]
  /\ convs \in IF cfg.enabled
               THEN {load_from_file(f) : f \in PersistedFiles} ELSE {<<>>}
  /\ server = [list |-> "bad_request", chats |-> <<>>, total |-> <<>>]
  /\ flag = cfg.enabled
  /\ now = 0 /\ uuid = 0 /\ hret = NoHret /\ ops = 0
  /\ threads = NoThreads
NextFallback == FallbackChatsCreate \/ FallbackCreateServerChat \/ Tick
SpecFallback == InitFallback /\ [][NextFallback]_vars

\* ---- chat.completions.create called directly on a client, with a
\* ---- conversation id, against a remote that answers with an HTTP status
\* Completions.create with its history write-back, stream=True included:
\* the streaming branch logs the request's user and system messages and
\* returns the Stream that post handed back
completions_create_direct(c, cs, u, t, enable_history, messages, conversation_id, status, streaming) ==
  LET response == post(status, streaming) IN
  IF ~streaming
  THEN completions_create(c, cs, u, t, enable_history, messages,
                          conversation_id,
                          IF response.raised # "" THEN "raise" ELSE "ok")
  ELSE
    LET history == enable_history /\ conversation_id # ""
        cs1 == IF history /\ get_conversation(c, cs, conversation_id) = <<>>
               THEN create_conversation(c, cs, u, t, conversation_id).convs
               ELSE cs
    IN [convs |-> IF history
                  THEN AddRequestMessages(c, cs1, conversation_id, messages, t)
                  ELSE cs1,
        raised |-> FALSE, completion |-> Completion("nochoices")]

DirectStatuses == {200, 400, 500}

CallCreateDirect ==
  /\ CanStep
  /\ \E id \in ConvIds, status \in DirectStatuses, streaming \in BOOLEAN :
    /\ \A i \in DOMAIN convs : Len(convs[i].messages) + 2 <= MaxMsgs
    /\ \E r \in {completions_create_direct(
                   cfg, convs, uuid, now, flag,
                   <<[role |-> "user", content |-> "x"]>>, id, status,
                   streaming)} :
         /\ convs' = r.convs
         /\ Step([op |-> "chat.completions.create", conversation_id |-> id,
                  status |-> status, stream |-> streaming,
                  raised |-> r.raised,
                  before |-> MessagesOf(convs, id),
                  after |-> MessagesOf(r.convs, id)])
    /\ UNCHANGED <<cfg, now, uuid, server, flag>>
  /\ UNCHANGED <<streamVars, threads>>

InitDirect == StreamQuiet /\ InitManager({FALSE})
NextDirect == CreateConversation \/ CallCreateDirect \/ Tick
SpecDirect == InitDirect /\ [][NextDirect]_vars

\* ---- overlapping send_message calls on one client: tasks suspended at
\* ---- the completion request, or threads preempted between two statements
IdleTask ==
  [pc |-> "idle", orig_enable_history |-> FALSE, done |-> 0, outcome |-> ""]

\* `orig_enable_history = self.chat.completions._enable_history`
SendSaves ==
  /\ \E t \in Threads :
    /\ threads.task[t].pc = "idle"
    /\ threads.task[t].done < MaxThreadCalls
    /\ threads' = [threads EXCEPT
                     !.task[t].pc = "saved", !.task[t].outcome = "",
                     !.task[t].orig_enable_history = flag]
  /\ UNCHANGED <<cfg, convs, now, uuid, server, flag, hret, ops>>
  /\ UNCHANGED streamVars

\* `self.chat.completions._enable_history = False`, then the request is sent
SendDisables ==
  /\ \E t \in Threads :
    /\ threads.task[t].pc = "saved"
    /\ flag' = FALSE
    /\ threads' = [threads EXCEPT !.task[t].pc = "awaiting"]
  /\ UNCHANGED <<cfg, convs, now, uuid, server, hret, ops>>
  /\ UNCHANGED streamVars

\* the completion call returns or raises
SendCompletes ==
  /\ \E t \in Threads, outcome \in {"ok", "error"} :
    /\ threads.task[t].pc = "awaiting"
    /\ threads' = [threads EXCEPT !.task[t].pc = "finally",
                                  !.task[t].outcome = outcome]
  /\ UNCHANGED <<cfg, convs, now, uuid, server, flag, hret, ops>>
  /\ UNCHANGED streamVars

\* `finally: self.chat.completions._enable_history = orig_enable_history`
SendRestores ==
  /\ \E t \in Threads :
    /\ threads.task[t].pc = "finally"
    /\ flag' = threads.task[t].orig_enable_history
    /\ threads' = [threads EXCEPT !.task[t].pc = "idle",
                                  !.task[t].done = @ + 1]
  /\ UNCHANGED <<cfg, convs, now, uuid, server, hret, ops>>
  /\ UNCHANGED streamVars

InitOverlap ==
  /\ StreamQuiet
  /\ cfg \in [enabled : BOOLEAN, max_conversations : {MaxCap},
              server_sync : {FALSE}]
  /\ convs = <<>> /\ server = NoServer
  \* Completions is built with enable_history = the client's setting
  /\ flag = cfg.enabled
  /\ now = 0 /\ uuid = 0 /\ hret = NoHret /\ ops = 0
  /\ threads = [task |-> [t \in Threads |-> IdleTask]]
NextOverlap == SendSaves \/ SendDisables \/ SendCompletes \/ SendRestores
SpecOverlap == InitOverlap /\ [][NextOverlap]_vars

\* ---- one store: messages added, read and cleared
MaxStoreRun == 4       \* operations in a run on one store

\* ConversationHistory.get_messages: `own` tells whether the list handed out
\* is the store's own list object or a new one
\* (handing out self.messages itself, which the code does not do)
get_messages_self(conv, role_filter) ==
  [own |-> TRUE, list |-> conv.messages]

get_messages(conv, role_filter) ==
  IF role_filter # <<>>
  THEN [own |-> FALSE,
        list |-> SelectSeq(conv.messages, LAMBDA m : m.role = role_filter[1])]
  ELSE [own |-> FALSE, list |-> conv.messages]

\* ConversationHistory.message_count
message_count(conv) == Len(conv.messages)

\* conv.clear_messages() on a tracked store
ClearMessages ==
  /\ CanStep
  /\ \E i \in DOMAIN convs :
    /\ convs' = [convs EXCEPT ![i] = clear_messages(@, now)]
    /\ Step([op |-> "clear_messages", id |-> convs[i].id])
    /\ UNCHANGED <<cfg, now, uuid, server, flag>>
  /\ UNCHANGED <<streamVars, threads>>

\* conv.get_messages(role_filter) on a tracked store
GetMessages ==
  /\ CanStep
  /\ \E i \in DOMAIN convs, role_filter \in {<<>>, <<"user">>} :
    /\ LET r == get_messages(convs[i], role_filter) IN
       Step([op |-> "get_messages", id |-> convs[i].id,
             role_filter |-> role_filter, own |-> r.own, list |-> r.list])
    /\ UNCHANGED <<cfg, convs, now, uuid, server, flag>>
  /\ UNCHANGED <<streamVars, threads>>

\* what a caller may do to a list it holds: append, pop, clear
ListChanges(l) ==
  {Append(l, [role |-> "user", content |-> "z", timestamp |-> 0,
              metadata |-> ""])}
    \cup (IF l = <<>> THEN {} ELSE {SubSeq(l, 1, Len(l) - 1), <<>>})

\* the caller changes the list get_messages returned; the store changes with
\* it exactly when that list is the store's own
ChangeReturnedList ==
  /\ CanStep
  /\ hret.op \in {"get_messages", "list_changed"}
  /\ Has(convs, hret.id)
  /\ \E l \in ListChanges(hret.list) :
    /\ Len(l) <= MaxMsgs
    /\ convs' = IF hret.own
                THEN [i \in DOMAIN convs |->
                        IF convs[i].id = hret.id
                        THEN [convs[i] EXCEPT !.messages = l] ELSE convs[i]]
                ELSE convs
    /\ Step([hret EXCEPT !.op = "list_changed", !.list = l])
    /\ UNCHANGED <<cfg, now, uuid, server, flag>>
  /\ UNCHANGED <<streamVars, threads>>

\* ---- ConversationHistory.to_dict / from_dict
\* datetime.isoformat() of clock reading t, and the text that keeps the date
\* only (which the code does not write)
isoformat_date(t) == "2024-01-01"

isoformat(t) == "2024-01-01T00:00:0" \o ToString(t)
\* str.replace('Z', '+00:00'): the texts isoformat writes hold no 'Z'
replace_Z(text) == text
\* datetime.fromisoformat: the clock reading whose text this is
fromisoformat(text) ==
  CHOOSE t \in 0..(MaxTime + 1) :
    \/ isoformat(t) = text
    \/ (\A u \in 0..(MaxTime + 1) : isoformat(u) # text) /\ t = 0

to_dict(conv) ==
  [id |-> conv.id,
   created_at |-> [type |-> "str", text |-> isoformat(conv.created_at)],
   updated_at |-> [type |-> "str", text |-> isoformat(conv.updated_at)],
   messages |-> conv.messages,
   metadata |-> conv.metadata,
   message_count |-> message_count(conv)]

\* a str field is parsed, the model is then built from the fields it
\* declares; the extra key message_count is ignored
from_dict(data) ==
  LET parsed(field) ==
        IF field.type = "str" THEN fromisoformat(replace_Z(field.text))
        ELSE field.value
  IN [id |-> data.id,
      created_at |-> parsed(data.created_at),
      updated_at |-> parsed(data.updated_at),
      messages |-> data.messages,
      metadata |-> data.metadata]

\* ConversationHistory.from_dict(conv.to_dict()) on a tracked store
RoundTrip ==
  /\ CanStep
  /\ \E i \in DOMAIN convs :
    /\ hret' = [op |-> "from_dict", id |-> convs[i].id,
                data |-> to_dict(convs[i]),
                store |-> from_dict(to_dict(convs[i]))]
    /\ UNCHANGED <<cfg, convs, now, uuid, server, flag, ops>>
  /\ UNCHANGED <<streamVars, threads>>

InitStore ==
  /\ StreamQuiet
  /\ cfg = [enabled |-> TRUE, max_conversations |-> MaxCap,
            server_sync |-> FALSE]
  \* the manager after create_conversation("c1")
  /\ convs = create_conversation(cfg, <<>>, 0, 0, "c1").convs
  /\ server = NoServer /\ flag = TRUE
  /\ now = 0 /\ uuid = 0 /\ hret = NoHret
  /\ ops = MaxOps - MaxStoreRun
  /\ threads = NoThreads
NextStore ==
  AddMessage \/ ClearMessages \/ GetMessages \/ ChangeReturnedList
    \/ RoundTrip \/ Tick
SpecStore == InitStore /\ [][NextStore]_vars

\* ---- get_conversation_context over a store filled by add_message calls
StoredMessages ==
  {[role |-> r, content |-> c, timestamp |-> 0, metadata |-> ""] :
     r \in Roles, c \in {"x", "y"}}

InitContext ==
  /\ StreamQuiet
  /\ cfg = [enabled |-> TRUE, max_conversations |-> 1, server_sync |-> FALSE]
  /\ convs \in {<<[NewConversation("c1", 0, 0, {}) EXCEPT !.messages = m]>> :
                  m \in SeqsUpTo(StoredMessages, MaxCtxMsgs)}
  /\ server = NoServer /\ flag = TRUE
  /\ now = 0 /\ uuid = 0 /\ hret = NoHret /\ ops = 0
  /\ threads = NoThreads
NextContext == GetContext
SpecContext == InitContext /\ [][NextContext]_vars


InitS == InitStream /\ HistQuiet
SpecStream == InitS /\ [][NextStream]_vars
\* ================================================================ claims

\* ---- send_message (SpecClient)

\* C1: when the completion call made by send_message fails (it raises, or
\* its response has no first choice to read the text from), the error
\* reaches the caller and the target conversation holds exactly the
\* messages it held before the call.
C1_FailedSendLeavesStore ==
  (hret.op = "send_message" /\ hret.called
     /\ hret.outcome \in {"raise", "nochoices"}) =>
    /\ hret.raised = (IF hret.outcome = "raise" THEN "APIError" ELSE "IndexError")
    /\ Len(hret.after) = Len(hret.before)
    /\ hret.after = hret.before

C1_Witness ==
  /\ hret.op = "send_message" /\ hret.called /\ hret.outcome = "raise"
  /\ hret.raised = "APIError"
  /\ cfg.enabled /\ flag
  /\ Len(hret.before) >= 1

\* C2: a send_message that returns, on a client with history enabled, has
\* appended exactly two messages to the target conversation, the user
\* message and then the assistant message, and returns the assistant text.
C2_SuccessfulSendAppendsTwo ==
  (hret.op = "send_message" /\ hret.raised = "" /\ cfg.enabled) =>
    LET n == Len(hret.before) IN
    /\ hret.called
    /\ Len(hret.after) = n + 2
    /\ SubSeq(hret.after, 1, n) = hret.before
    /\ hret.after[n + 1].role = "user"
    /\ hret.after[n + 1].content = hret.message
    /\ hret.after[n + 2].role = "assistant"
    /\ hret.after[n + 2].content = hret.returned
    /\ hret.returned = Completion(hret.outcome).choices[1].message.content

C2_Witness ==
  /\ hret.op = "send_message" /\ hret.raised = "" /\ cfg.enabled /\ flag
  /\ hret.outcome = "ok" /\ hret.returned = "r"
  /\ Len(hret.before) >= 1
  /\ Len(hret.after) = Len(hret.before) + 2

\* ---- history manager (SpecManager)

\* C3: an enabled manager never tracks more than max_conversations
\* conversations.
C3_CountWithinMax ==
  cfg.enabled => Len(convs) <= cfg.max_conversations

AllIds == ConvIds \cup ServerIds \cup {PersistedIds[i] : i \in DOMAIN PersistedIds}

\* C4: a disabled manager keeps its conversation map empty; get_conversation
\* returns None, list_conversations is empty and delete_conversation
\* returns False.
C4_DisabledKeepsNothing ==
  ~cfg.enabled =>
    /\ convs = <<>>
    /\ list_conversations(cfg, convs) = <<>>
    /\ \A id \in AllIds :
         /\ get_conversation(cfg, convs, id) = <<>>
         /\ delete_conversation(cfg, convs, id).result = FALSE

\* C10: two sync_with_server calls in a row against the same listing of N
\* chats, none of them local before the first: the first reports synced
\* with synced_count = N and total_server_chats = N, the second reports
\* synced_count = 0, and the number of tracked conversations is the same
\* after both.
C10_SecondSyncAddsNothing ==
  (hret.op = "sync_with_server" /\ hret.first # <<>>
     /\ cfg.server_sync /\ ~chats_list(server).raised
     /\ \A i \in DOMAIN chats_list(server).data :
          chats_list(server).data[i].chat_id \notin hret.first[1].local_before) =>
    LET N == Len(chats_list(server).data)
        first == hret.first[1]
    IN /\ first.result.synced
       /\ first.result.synced_count = N
       /\ first.result.total_server_chats = N
       /\ hret.result.synced_count = 0
       /\ hret.count = first.count

\* ---- streaming consumer (SpecStream)

\* C5: on_complete is called exactly once when iteration has ended with
\* accumulated text, and never a second time on the same stream, whatever
\* next / collect / print_stream calls are made.
C5_CompleteExactlyOnce ==
  hooks =>
    /\ Len(stream.on_complete) <= 1
    /\ (ret.res \in {"stop", "ok"} /\ stream.accumulated_content # ""
          => Len(stream.on_complete) = 1)

IsChunkLine(l) == l.k = "data" /\ l.t = "chunk"
IsDoneLine(l) == l.k = "data" /\ l.t = "done"

\* valid chunks (with the blank lines of the event framing) and then [DONE]
ValidThenDone(ls) ==
  /\ Len(ls) >= 1
  /\ IsDoneLine(ls[Len(ls)])
  /\ \A i \in 1..(Len(ls) - 1) : IsChunkLine(ls[i]) \/ ls[i].k = "blank"

\* concatenation, in order, of every non-null choices[0].delta.content
RECURSIVE ConcatDeltas(_)
ConcatDeltas(ls) ==
  IF ls = <<>> THEN ""
  ELSE LET l == Head(ls)
           d == IF IsChunkLine(l) /\ l.choices # <<>> /\ l.choices[1].content # Null
                THEN l.choices[1].content ELSE ""
       IN d \o ConcatDeltas(Tail(ls))

\* every chunk of the source, in order
AllChunks(ls) ==
  LET cl == SelectSeq(ls, IsChunkLine)
  IN [i \in DOMAIN cl |-> [choices |-> cl[i].choices]]

\* C6: over valid chunks followed by [DONE], collect() on a fresh stream
\* returns the concatenation of the delta contents and every chunk in
\* order, and print_stream() on a fresh stream returns and prints that text.
C6_CollectIsConcatenation ==
  (ret.fresh /\ ValidThenDone(lines)) =>
    /\ ret.op = "collect" =>
         /\ ret.res = "ok"
         /\ ret.text = ConcatDeltas(lines)
         /\ ret.chunks = AllChunks(lines)
    /\ ret.op = "print_stream" =>
         /\ ret.res = "ok"
         /\ ret.text = ConcatDeltas(lines)
         /\ out = ConcatDeltas(lines) \o End

C6_Witness ==
  /\ ret.op = "collect" /\ ret.fresh /\ ValidThenDone(lines)
  /\ Len(ret.chunks) = 2
  /\ ret.text = "ab"

Undecodable(l) == l.k = "data" /\ l.t \in {"badjson", "nonobj"}
RemoveAt(ls, i) == SubSeq(ls, 1, i - 1) \o SubSeq(ls, i + 1, Len(ls))

\* C7: an undecodable data line between two valid chunks is invisible: no
\* error, and the text, the chunks and the hook calls of collect() on a
\* fresh stream are those of the same source without that line.
C7_UndecodableLineInvisible ==
  (ret.op = "collect" /\ ret.fresh) =>
    \A i \in 2..(Len(lines) - 1) :
      (Undecodable(lines[i]) /\ IsChunkLine(lines[i - 1])
         /\ IsChunkLine(lines[i + 1])) =>
        LET r == collect(RemoveAt(lines, i), hooks, StreamInit) IN
        /\ ret.res = r.res
        /\ ret.err = ""
        /\ ret.text = r.text
        /\ ret.chunks = r.chunks
        /\ stream.accumulated_content = r.s.accumulated_content
        /\ stream.on_chunk = r.s.on_chunk
        /\ stream.on_content = r.s.on_content
        /\ stream.on_complete = r.s.on_complete

\* ---- get_conversation_context (SpecContext)

Stored == Get(convs, hret.id).messages
Projection(m) == [role |-> m.role, content |-> m.content]

\* N user/assistant pairs
IsPairs(msgs) ==
  /\ Len(msgs) % 2 = 0
  /\ \A i \in DOMAIN msgs :
       msgs[i].role = (IF i % 2 = 1 THEN "user" ELSE "assistant")

\* C8: over a store of N user/assistant pairs and 0 <= k < 2N,
\* get_conversation_context(id, max_messages=k) returns exactly the last k
\* messages in their original order.
C8_LastKMessages ==
  (hret.op = "get_conversation_context" /\ hret.max_messages # <<>>
     /\ IsPairs(Stored) /\ hret.max_messages[1] < Len(Stored)) =>
    LET k == hret.max_messages[1] IN
    /\ hret.err = ""
    /\ hret.ctx = [i \in 1..k |-> Projection(Stored[Len(Stored) - k + i])]

\* the last k messages, all of them when there are fewer
LastK(msgs, k) ==
  IF k >= Len(msgs) THEN msgs ELSE SubSeq(msgs, Len(msgs) - k + 1, Len(msgs))

\* C9: for any stored messages and any limit, the context is, in order,
\* the {role, content} projection of the messages of the trimmed window
\* (all messages without a limit) whose role is system, user or assistant.
C9_ContextIsFilteredWindow ==
  hret.op = "get_conversation_context" =>
    LET window == IF hret.max_messages = <<>> THEN Stored
                  ELSE LastK(Stored, hret.max_messages[1])
        kept == SelectSeq(window, LAMBDA m : m.role \in ContextRoles)
    IN /\ hret.err = ""
       /\ hret.ctx = [i \in DOMAIN kept |-> Projection(kept[i])]

\* ---- sync_with_server as a step (SpecManager)

\* a step that is one sync_with_server call
IsSyncStep == hret'.op = "sync_with_server" /\ ops' = ops + 1

\* C11: a sync_with_server call leaves every conversation tracked before it
\* exactly as it was (same id, timestamps, messages and metadata), also when
\* the listing holds a chat of the same id, and the stores it adds are stores
\* of listed chat ids that were not tracked.
C11_SyncKeepsTracked ==
  [][IsSyncStep =>
       /\ \A i \in DOMAIN convs :
            /\ Has(convs', convs[i].id)
            /\ Get(convs', convs[i].id) = convs[i]
       /\ \A j \in DOMAIN convs' :
            ~Has(convs, convs'[j].id) =>
              \E k \in DOMAIN chats_list(server).data :
                chats_list(server).data[k].chat_id = convs'[j].id]_vars

\* ---- eviction (SpecEvict)

\* C12: with creations and add_message calls only, the manager never tracks
\* more than max_conversations stores, a create_conversation call keeps the
\* store it made, and every store it evicts was updated no later than every
\* store it keeps: the stores kept are the most recently updated ones.
C12_EvictsLeastRecentlyUpdated ==
  /\ Len(convs) <= cfg.max_conversations
  /\ hret.op = "create_conversation" =>
       /\ Has(convs, hret.id)
       /\ \A e \in hret.evicted : \A i \in DOMAIN convs :
            e.updated_at <= convs[i].updated_at

\* an eviction that spares the oldest created store, because a message was
\* added to it since
C12_Witness ==
  /\ hret.op = "create_conversation" /\ hret.evicted # {}
  /\ Len(convs) = cfg.max_conversations /\ cfg.max_conversations = 2
  /\ \E i \in DOMAIN convs : \E e \in hret.evicted :
       /\ convs[i].messages # <<>>
       /\ convs[i].created_at = 0
       /\ e.updated_at < convs[i].updated_at

\* ---- send_message without conversation_id (SpecReuse)

\* C13: a send_message without conversation_id, when conversations are
\* tracked, creates none and targets a tracked conversation that none of the
\* others was created after; when none is tracked it creates exactly one
\* and targets it.
C13_SendReusesLatestCreated ==
  (hret.op = "send_message" /\ hret.conversation_id = "") =>
    IF hret.tracked = <<>>
    THEN Len(convs) = 1 /\ convs[1].id = hret.cid
    ELSE /\ Keys(convs) = Keys(hret.tracked)
         /\ Has(hret.tracked, hret.cid)
         /\ \A i \in DOMAIN hret.tracked :
              hret.tracked[i].created_at
                <= Get(hret.tracked, hret.cid).created_at
         /\ hret.raised = "" =>
              Len(Get(convs, hret.cid).messages)
                = Len(Get(hret.tracked, hret.cid).messages) + 2

\* ---- concurrent create_conversation calls (SpecThreads)

\* C14: whatever the interleaving of the threads' create_conversation
\* calls, no call ends with an exception, and once a call that had the
\* manager to itself has returned, at most max_conversations conversations
\* are tracked.
C14_ConcurrentCreateIsSafe ==
  /\ \A t \in Threads : threads.th[t].raised = ""
  /\ threads.settled => Len(convs) <= cfg.max_conversations

\* ---- chat-management calls (SpecChats)

\* C15: in chats.list, get, update and delete, a rejection other than
\* malformed-request (400) is raised to the caller as the error of its own
\* kind; no page, chat record or False is returned in its place.
C15_RejectionsSurface ==
  (hret.op \in {"chats.list", "chats.get", "chats.update", "chats.delete"}
     /\ hret.status >= 400 /\ hret.status # 400) =>
    /\ hret.result.raised = handle_error_response(hret.status)
    /\ hret.result.value = "none"

\* C16: a completion request that the remote rejects as malformed (400)
\* ends, in chat.completions.create and in send_message, with
\* BadRequestError raised to the caller; nothing is returned in its place.
C16_MalformedCompletionSurfaces ==
  (hret.op \in {"chat.completions.create", "send_message"}
     /\ hret.status = 400) =>
    /\ hret.result.raised = "BadRequestError"
    /\ hret.result.value = "none"

\* ---- the local_ fallback of chats.create (SpecFallback)

FallbackTags == {<<"synced_with_server", FALSE>>, <<"local_fallback", TRUE>>}

\* the call returned a local_ id that no earlier call returned
FreshLocalId ==
  /\ ~hret.raised
  /\ startswith_local(hret.result)
  /\ hret.result \notin hret.issued

\* C17 (as stated): against a remote that always answers malformed-request,
\* every chats.create call returns a fresh local_ id, and create_server_chat
\* on a manager with server sync returns one without raising and registers a
\* store under it tagged local_fallback = true, synced_with_server = false.
C17_FallbackAlwaysRegisters ==
  /\ hret.op \in {"chats.create", "create_server_chat"} => FreshLocalId
  /\ hret.op = "create_server_chat" =>
       /\ Has(convs, hret.result)
       /\ Get(convs, hret.result).metadata = FallbackTags

\* C17 (amended): the same, where the store is registered by an enabled
\* manager; a disabled manager with server sync returns the fresh id and
\* registers nothing.
C17_FallbackRegistersWhenEnabled ==
  /\ hret.op \in {"chats.create", "create_server_chat"} => FreshLocalId
  /\ hret.op = "create_server_chat" =>
       IF cfg.enabled
       THEN /\ Has(convs, hret.result)
            /\ Get(convs, hret.result).metadata = FallbackTags
       ELSE convs = <<>>

C17_Witness ==
  /\ hret.op = "create_server_chat" /\ cfg.enabled
  /\ Cardinality(hret.issued) = 2
  /\ FreshLocalId
  /\ Has(convs, hret.result)
  /\ Get(convs, hret.result).metadata = FallbackTags

\* ---- callback order (SpecStream)

\* the delta of a chunk: choices[0].delta.content, "" when there is none
DeltaOf(chunk) ==
  IF chunk.choices # <<>> /\ chunk.choices[1].content # Null
  THEN chunk.choices[1].content ELSE ""

\* the calls a stream with hooks owes for the chunks cs, given the text
\* accumulated before them
RECURSIVE CallsFor(_, _)
CallsFor(cs, acc) ==
  IF cs = <<>> THEN <<>>
  ELSE LET d == DeltaOf(Head(cs)) IN
       (IF d # ""
        THEN <<[call |-> "on_content", arg |-> d, accumulated |-> acc \o d]>>
        ELSE <<>>)
       \o <<[call |-> "on_chunk", arg |-> Head(cs)]>>
       \o CallsFor(Tail(cs), acc \o d)

RECURSIVE ConcatAll(_)
ConcatAll(q) == IF q = <<>> THEN "" ELSE Head(q) \o ConcatAll(Tail(q))

\* C18: for every decoded chunk, in order: the delta is added to the
\* accumulator, on_content is called with the delta alone (when it is not
\* empty), on_chunk is called with the chunk, and the chunk is handed over;
\* so on_chunk has fired once per emitted chunk and the deltas given to
\* on_content, concatenated, are the accumulated text.
C18_CallbackOrder ==
  /\ hooks =>
       /\ stream.events = CallsFor(stream.chunks, "")
       /\ stream.on_chunk = stream.chunks
       /\ ConcatAll(stream.on_content) = stream.accumulated_content
  /\ ret.op = "next" /\ ret.res = "chunk" =>
       /\ ret.chunks = <<stream.chunks[Len(stream.chunks)]>>
       /\ hooks => stream.events[Len(stream.events)]
                     = [call |-> "on_chunk", arg |-> ret.chunks[1]]
  /\ ret.op = "collect" /\ ret.res = "ok" /\ ret.fresh =>
       ret.chunks = stream.chunks

C18_Witness ==
  /\ hooks /\ ret.op = "next" /\ ret.res = "chunk"
  /\ Len(stream.on_chunk) = 3
  /\ Len(stream.on_content) = 2
  /\ stream.accumulated_content = "ab"

C20_UpdatedNotBeforeCreated ==
  \A i \in DOMAIN convs : convs[i].updated_at >= convs[i].created_at

\* C21: from_dict(to_dict(store)) has the id, the messages in order, the
\* metadata, created_at and updated_at of the store it was made from.
C21_DictRoundTrip ==
  hret.op = "from_dict" =>
    LET conv == Get(convs, hret.id) IN
    /\ hret.store.id = conv.id
    /\ hret.store.messages = conv.messages
    /\ hret.store.metadata = conv.metadata
    /\ hret.store.created_at = conv.created_at
    /\ hret.store.updated_at = conv.updated_at

C21_Witness ==
  /\ hret.op = "from_dict"
  /\ Len(hret.store.messages) = 2
  /\ hret.store.messages[1].role # hret.store.messages[2].role
  /\ hret.store.updated_at > hret.store.created_at
  /\ hret.data.updated_at.text # hret.data.created_at.text

\* C22: when no send_message call is in flight, _enable_history has the
\* value the client was built with, whatever way the calls overlapped.
C22_FlagRestoredWhenQuiet ==
  (\A t \in Threads : threads.task[t].pc = "idle") => flag = cfg.enabled

\* C23: once the stream has read the [DONE] sentinel and signalled the end,
\* it emits no chunk of a line that follows the sentinel: the chunks it has
\* emitted are those of lines before the sentinel, and a later call ends
\* again with nothing.
IsSentinel(j) == lines[j].k = "data" /\ lines[j].t = "done"
SentinelRead(j) ==
  /\ j \in 1..stream.iterator /\ IsSentinel(j)
  /\ \A i \in 1..(j - 1) : ~IsSentinel(i) /\ lines[i].k # "raise"
ChunkLinesBefore(j) ==
  Cardinality({i \in 1..(j - 1) : lines[i].k = "data" /\ lines[i].t = "chunk"})
C23_NothingAfterSentinel ==
  \A j \in DOMAIN lines :
    SentinelRead(j) =>
      /\ Len(stream.chunks) <= ChunkLinesBefore(j)
      /\ stream.iterator > j => ret.res = "stop" /\ ret.chunks = <<>>

\* C24: a call during which the line source raises ends with that error,
\* fires no completion callback, and leaves as accumulated text the
\* concatenation of the deltas of the chunks decoded before the failure.
SourceRaisesAt(j) ==
  /\ lines[j].k = "raise"
  /\ stream.iterator < j /\ j <= stream'.iterator
  /\ \A i \in (stream.iterator + 1)..(j - 1) : lines[i].k # "raise"
C24_SourceErrorPropagates ==
  [][\A j \in DOMAIN lines :
       calls' # calls /\ SourceRaisesAt(j) =>
         /\ ret'.res = "error" /\ ret'.err = "transport"
         /\ stream'.on_complete = stream.on_complete
         /\ stream'.accumulated_content
              = ConcatDeltas(SubSeq(lines, 1, j - 1))]_vars

C24_Witness ==
  /\ ret.res = "error" /\ ret.err = "transport"
  /\ Len(lines) = 3 /\ lines[3].k = "raise"
  /\ hooks
  /\ stream.accumulated_content = "ab"
  /\ stream.on_complete = <<>>

\* C25: create_conversation with a tracked id puts a new empty store in the
\* place of the tracked one: as many conversations are tracked as before,
\* in the same order, and get_conversation(id) is a store without messages.
IsRecreateStep ==
  /\ ops' # ops
  /\ hret'.op = "create_conversation"
  /\ Has(convs, hret'.id)
C25_RecreateReplacesInPlace ==
  [][IsRecreateStep =>
       /\ Len(convs') = Len(convs)
       /\ list_conversations(cfg, convs') = list_conversations(cfg, convs)
       /\ LET conv == get_conversation(cfg, convs', hret'.id) IN
          conv # <<>> /\ conv[1].messages = <<>>]_vars

\* C26: on an enabled manager the store create_conversation has just made
\* is tracked when the call returns, whatever the other stores' timestamps.
C26_CreatedStoreSurvives ==
  hret.op = "create_conversation" /\ cfg.enabled =>
    /\ get_conversation(cfg, convs, hret.id) # <<>>
    /\ get_conversation(cfg, convs, hret.id)[1].messages = <<>>

C28_DisabledSendNeverCalls ==
  (hret.op = "send_message" /\ ~cfg.enabled) =>
    /\ ~hret.called
    /\ hret.raised = "ValueError"
    /\ convs = <<>>

C28_Witness ==
  /\ hret.op = "send_message" /\ ~cfg.enabled
  /\ hret.cid = Uuid4(1)
  /\ hret.raised = "ValueError" /\ ~hret.called
  /\ hret.outcome = "ok"

\* C29: a direct chat.completions.create with a conversation id on a client
\* with history enabled, whose request fails, raises after appending
\* exactly one system message "Error: ..." to the conversation, and that
\* message is in the context built for the conversation afterwards.
C29_FailedCreateLogsError ==
  (hret.op = "chat.completions.create" /\ cfg.enabled /\ hret.status >= 400) =>
    /\ hret.raised
    /\ Len(hret.after) = Len(hret.before) + 1
    /\ SubSeq(hret.after, 1, Len(hret.before)) = hret.before
    /\ LET m == hret.after[Len(hret.after)]
           context == get_conversation_context(cfg, convs, hret.conversation_id,
                                               <<>>, <<>>)
       IN /\ m.role = "system" /\ m.content = "Error: e"
          /\ context.err = ""
          /\ context.ctx # <<>>
          /\ context.ctx[Len(context.ctx)]
               = [role |-> "system", content |-> "Error: e"]

\* C30: collect() returns the text accumulated since the stream was made,
\* with the chunks emitted during the call only; print_stream() returns the
\* text of the chunks it consumed itself.  The chunks a call consumed are
\* those the stream holds beyond the ones it held before the call.
ConsumedBy(before, after) ==
  SubSeq(after.chunks, Len(before.chunks) + 1, Len(after.chunks))
ReturnsAsDescribed ==
  /\ ret'.op = "collect" /\ ret'.res = "ok" =>
       /\ ret'.text = stream'.accumulated_content
       /\ ret'.chunks = ConsumedBy(stream, stream')
  /\ ret'.op = "print_stream" /\ ret'.res = "ok" =>
       ret'.text = TextOf(ConsumedBy(stream, stream'))
\* the call is made on a stream that has not emitted a chunk yet
FirstConsumer == stream.chunks = <<>>
\* ... and the text collect() returns is the concatenation of the contents
\* of the chunks it returns only when collect() is the first consumer
C30_TextMatchesOnlyWhenFirst ==
  [][calls' # calls =>
       /\ ReturnsAsDescribed
       /\ ret'.op = "collect" /\ ret'.res = "ok" =>
            /\ FirstConsumer => ret'.text = TextOf(ret'.chunks)
            /\ ret'.text = TextOf(ret'.chunks) => FirstConsumer]_vars

\* ... and the text collect() returns is the text accumulated before the
\* call followed by the contents of the chunks it returns, so the two agree
\* exactly when the chunks consumed before the call carried no text
C30_TextMatchesWhenNothingBefore ==
  [][calls' # calls =>
       /\ ReturnsAsDescribed
       /\ ret'.op = "collect" /\ ret'.res = "ok" =>
            /\ FirstConsumer => ret'.text = TextOf(ret'.chunks)
            /\ ret'.text = stream.accumulated_content \o TextOf(ret'.chunks)
            /\ ret'.text = TextOf(ret'.chunks)
                 <=> stream.accumulated_content = ""]_vars

C30_Witness ==
  /\ ret.op = "collect" /\ ret.res = "ok" /\ ~ret.fresh
  /\ ret.text = "ab"
  /\ Len(ret.chunks) = 1 /\ Len(stream.chunks) = 2
====
